---------------------------- MODULE Spec2Model ----------------------------
(***************************************************************************)
(* A model of audio_src2url.py: the notebook scanner and rewriter, the     *)
(* artifact store (save_audio_file, commit_and_push_audio_file) and the    *)
(* branch protocol around it (change_branch, restore_branch).              *)
(*                                                                         *)
(* Strings are sequences of tokens.  A token stands for a literal piece    *)
(* of the text/html content:                                               *)
(*   "S"   <source src="        "D"   data:audio/                          *)
(*   "wav" / "ogg"  a declared audio subtype                               *)
(*   "B"   ;base64,             "Q"   the closing double quote             *)
(*   "a" / "b"  a well-formed group of base64 characters                   *)
(*   "x"   a truncated base64 group (b64decode raises binascii.Error)      *)
(*   "n"   a character outside the base64 alphabet (b64decode drops it)    *)
(*   "t"   any other markup                                                *)
(*   "url" a retrieval URL; its fields name the artifact path              *)
(***************************************************************************)
EXTENDS Integers, Sequences, FiniteSets, TLC

\* ------------------------------------------------------------------ bounds
MaxCells == 2
MaxFaults == 2

\* arguments on the command line
MaxArgs == 2
HashMod == 3

\* ------------------------------------------------------------------ tokens
T(k) == [k |-> k, cell |-> 0, hash |-> 0]

Str(ks) == [i \in 1..Len(ks) |-> T(ks[i])]

NoPath == [cell |-> -1, hash |-> -1]

Unset == T("unset")
None == T("None")

branch_name == "audio-storage"

NoBranch == "<None>"

\* --------------------------------------------------------- pure functions
Max(S) == CHOOSE m \in S : \A y \in S : y <= m

Min(S) == CHOOSE m \in S : \A y \in S : m <= y

\* ''.join(value): a str joins to itself, a list of lines to their concatenation
RECURSIVE JoinLines(_)
JoinLines(lines) ==
    IF lines = <<>> THEN <<>> ELSE Head(lines) \o JoinLines(Tail(lines))

Join(value) == IF value.kind = "str" THEN value.lines[1] ELSE JoinLines(value.lines)

\* One attempt of the pattern <source src="data:audio/[^"]+base64,([^"]+)" at
\* position i: the greedy [^"]+ runs to the last ";base64," before the first
\* quote that still leaves a non-empty payload.
MatchAt(s, i) ==
    IF i + 1 <= Len(s) /\ s[i].k = "S" /\ s[i+1].k = "D"
    THEN LET qs == { q \in (i+2)..Len(s) : s[q].k = "Q" } IN
         IF qs = {} THEN [ok |-> FALSE, from |-> 0, to |-> 0]
         ELSE LET q  == Min(qs)
                  js == { j \in (i+2)..(q-2) : s[j].k = "B" } IN
              IF js = {} THEN [ok |-> FALSE, from |-> 0, to |-> 0]
              ELSE [ok |-> TRUE, from |-> Max(js) + 1, to |-> q - 1]
    ELSE [ok |-> FALSE, from |-> 0, to |-> 0]

\* re.findall: the captured payloads of the non-overlapping matches, left to right
RECURSIVE FindFrom(_, _)
FindFrom(s, i) ==
    IF i > Len(s) THEN <<>>
    ELSE LET m == MatchAt(s, i) IN
         IF m.ok THEN <<SubSeq(s, m.from, m.to)>> \o FindFrom(s, m.to + 2)
         ELSE FindFrom(s, i + 1)

FindAll(s) == FindFrom(s, 1)

\* str.replace(old, new): every non-overlapping occurrence, left to right
RECURSIVE Replace(_, _, _)
Replace(s, old, new) ==
    IF Len(s) < Len(old) THEN s
    ELSE IF SubSeq(s, 1, Len(old)) = old
         THEN new \o Replace(SubSeq(s, Len(old) + 1, Len(s)), old, new)
         ELSE <<s[1]>> \o Replace(Tail(s), old, new)

\* f'data:audio/wav;base64,{match}'
DataWav(match) == <<T("D"), T("wav"), T("B")>> \o match

\* base64.b64decode: raises on a truncated group, drops characters outside the
\* alphabet, and yields the bytes of the well-formed groups
DecodeRaises(payload) == \E i \in 1..Len(payload) : payload[i].k = "x"

InAlphabet(tok) == tok.k \in {"a", "b"}

ByteOf(tok) == IF tok.k = "a" THEN 1 ELSE 2

b64decode(payload) ==
    LET kept == SelectSeq(payload, InAlphabet) IN
    [i \in 1..Len(kept) |-> ByteOf(kept[i])]

\* hashlib.sha256(audio_data).hexdigest()[:hash_length]: a function of the bytes
\* alone, with collisions once truncated
RECURSIVE Digest(_, _)
Digest(bytes, acc) ==
    IF bytes = <<>> THEN acc
    ELSE Digest(Tail(bytes), (2 * acc + Head(bytes)) % HashMod)

audio_hash(bytes) == Digest(bytes, 0)

\* os.path.join("audio_files", f"{notebook_name}_cell{cell_index}_{audio_hash}.wav")
AudioFilepath(payload, idx) == [cell |-> idx, hash |-> audio_hash(b64decode(payload))]

\* f"{repo_url.replace('.git', '')}/raw/{branch_name}/{audio_filepath}"
RawUrl(path) == [k |-> "url", cell |-> path.cell, hash |-> path.hash]

\* re.sub(r'\.ipynb$', '_out.ipynb', input_filename) if nondestructive
OutputFilename(name, nondes) ==
    IF nondes /\ name.ext = ".ipynb" THEN [name EXCEPT !.suffix = "_out"]
    ELSE name


\* ------------------------------------------------------- input documents
Value(kind, lines) == [kind |-> kind, lines |-> lines]

Plain == Value("list", <<Str(<<"t">>)>>)

Output(type, html) ==
    [output_type |-> type, data |-> ("text/plain" :> Plain) @@ ("text/html" :> html)]

PlainOutput(type) == [output_type |-> type, data |-> ("text/plain" :> Plain)]

Code(outputs) == [cell_type |-> "code", outputs |-> outputs]

Markdown == [cell_type |-> "markdown", outputs |-> <<>>]

H_wav == Str(<<"S", "D", "wav", "B", "a", "Q">>)

H_ogg == Str(<<"S", "D", "ogg", "B", "b", "n", "Q">>)

H_prefix == Str(<<"S", "D", "wav", "B", "a", "Q", "S", "D", "wav", "B", "a", "b", "Q">>)

H_dup == Str(<<"S", "D", "wav", "B", "a", "Q", "t", "S", "D", "wav", "B", "a", "Q">>)

H_bad == Str(<<"S", "D", "wav", "B", "x", "Q">>)

\* The cells a notebook is built from: cells and outputs the scanner passes
\* over, text/html entries without a reference (a plain string, a list of
\* lines), and entries with references (one split over two lines, another
\* subtype, a payload that is a prefix of the next, the same payload twice, a
\* payload that fails to decode).
Cells ==
    { Markdown,
      Code(<<Output("display_data", Value("str", <<H_wav>>)),
             PlainOutput("execute_result"),
             Output("execute_result", Value("str", <<Str(<<"t">>)>>)),
             Output("execute_result", Value("list", <<Str(<<"t">>), Str(<<"t", "Q">>)>>))>>),
      Code(<<Output("execute_result",
                    Value("list", <<Str(<<"S", "D", "wav", "B", "a">>), Str(<<"Q", "t">>)>>))>>),
      Code(<<Output("execute_result", Value("str", <<H_ogg>>))>>),
      Code(<<Output("execute_result", Value("list", <<H_prefix>>))>>),
      Code(<<Output("execute_result", Value("list", <<H_dup>>))>>),
      Code(<<Output("execute_result", Value("str", <<H_bad>>))>>) }

Docs == UNION { [1..n -> Cells] : n \in 1..MaxCells }

input_filename == [stem |-> "nb", suffix |-> "", ext |-> ".ipynb"]

\* ------------------------------------------------------------------ state
VARIABLES
    pc,               \* position in audio_data2url and the functions it calls
    error,            \* the exception that left audio_data2url, or "none"
    \* the repository
    branch,           \* current branch ("" on a detached HEAD)
    storage_tree,     \* the notebook as committed on audio-storage ("none": no such branch)
    dirty,            \* the notebook has uncommitted modifications
    staged,           \* artifact paths in the index
    stash,            \* stash entries, newest first
    committed,        \* artifact files committed on audio-storage
    pushed,           \* artifact files pushed to origin
    input_disk,       \* content of the input file on disk
    written_files,    \* artifact files written under audio_files
    out_files,        \* what json.dump wrote, by file name
    issued,           \* the git commands run, each with the branch it ran on
    \* the run
    parseable, nondestructive, input_doc,
    start,            \* the repository when the run began
    main,             \* the script's loop over sys.argv[1:]
    notebook, cell_index, out_index, value_str, matches, match_i, matches_found,
    current_branch, audio_filepath, raw_url, cp_branch, res, status,
    \* history
    entry_branch,     \* the branch when the current reference was taken up
    entry,            \* the work tree and the stash at that moment
    outcomes,         \* how each reference of the current entry ended
    returned,         \* the URLs commit_and_push_audio_file returned, per reference
    faults,           \* git commands that have failed so far
    reports           \* what each except handler printed and returned

repo == <<branch, storage_tree, dirty, staged, stash, committed, pushed, input_disk>>

inputs == <<parseable, nondestructive, input_doc, start, main>>

ctx == <<inputs, faults, reports>>

scan == <<notebook, cell_index, out_index, value_str, matches, match_i, matches_found>>

locals == <<current_branch, audio_filepath, raw_url, cp_branch, res>>

effects == <<written_files, out_files, status>>

history == <<entry_branch, entry, outcomes, returned>>

vars == <<pc, error, repo, issued, ctx, scan, locals, effects, history>>

NoRes == [c \in {"add", "commit", "push"} |-> "none"]

NoEntry == [dirty |-> FALSE, stash |-> <<>>]

\* audio_data2url called on its own, outside the script's loop
NoMain == [argv |-> <<>>, i |-> 0, todo |-> <<>>, called |-> <<>>, exit |-> -1]

\* the notebook as committed on branch b
InputAt(b) == IF b = branch_name THEN storage_tree ELSE "orig"

Init ==
    /\ pc = "load" /\ error = "none"
    /\ branch \in {"main", "", branch_name}
    /\ storage_tree \in {"none", "other"}
    /\ branch = branch_name => storage_tree # "none"
    /\ dirty \in BOOLEAN
    /\ staged = {} /\ stash = <<>> /\ committed = {} /\ pushed = {}
    /\ input_disk = IF dirty THEN "edited" ELSE InputAt(branch)
    /\ written_files = {} /\ out_files = <<>> /\ issued = {}
    /\ nondestructive \in BOOLEAN
    /\ \/ parseable = TRUE /\ input_doc \in Docs
       \/ parseable = FALSE /\ input_doc = <<>>
    /\ notebook = <<>> /\ cell_index = 0 /\ out_index = 1
    /\ value_str = <<>> /\ matches = <<>> /\ match_i = 0 /\ matches_found = FALSE
    /\ current_branch = NoBranch /\ audio_filepath = NoPath /\ raw_url = Unset
    /\ cp_branch = NoBranch /\ res = NoRes /\ status = "none"
    /\ entry_branch = NoBranch /\ outcomes = <<>> /\ returned = {} /\ faults = 0
    /\ entry = NoEntry /\ reports = {} /\ main = NoMain
    /\ start = [branch |-> branch, dirty |-> dirty, input_disk |-> input_disk]

\* ------------------------------------------------------------- git model
\* subprocess.run([...], check=True) inside a try: a zero return code goes on to
\* the next statement, a non-zero one raises CalledProcessError into the handler
RunUnchecked(ok, next, handler) == next

RunChecked(ok, next, handler) == IF ok THEN next ELSE handler

\* A command may fail while the run has failures left (MaxFaults bounds them).
Outcomes == IF faults < MaxFaults THEN BOOLEAN ELSE {TRUE}

\* the outcomes of a command that can succeed only if `possible`
OutcomesIf(possible) == IF possible THEN Outcomes ELSE {FALSE}

Fault(ok) == faults' = IF ok THEN faults ELSE faults + 1

\* except subprocess.CalledProcessError as e:
\*     print(f"Error during Git operation: {e}"); return None
\* The same two lines end change_branch, commit_and_push_audio_file and
\* restore_branch: what the handler of function fn prints before e, and what
\* fn then returns.
Handler(fn) ==
    [fn |-> fn, printed |-> "Error during Git operation", returns |-> None]

Except(ok, fn) == reports' = IF ok THEN reports ELSE reports \cup {Handler(fn)}

Log(cmd) == issued' = issued \cup {[cmd |-> cmd, on |-> branch]}

\* git stash: saves the modified notebook and the index and resets both; with
\* nothing to save it exits 0 and creates no entry
GitStash ==
    IF dirty \/ staged # {}
    THEN /\ stash' = <<[dirty |-> dirty, staged |-> staged]>> \o stash
         /\ dirty' = FALSE
         /\ staged' = {}
         /\ input_disk' = IF dirty THEN InputAt(branch) ELSE input_disk
    ELSE UNCHANGED <<stash, dirty, staged, input_disk>>

\* git checkout <target>: the work tree takes the target's committed notebook
\* unless local modifications are carried over
GitCheckoutStays(target, tree) == UNCHANGED <<branch, input_disk>>

GitCheckout(target, tree) ==
    /\ branch' = target
    /\ input_disk' = IF dirty THEN input_disk
                     ELSE IF target = branch_name THEN tree ELSE "orig"

\* ------------------------------------------------------- audio_data2url
Terminal == {"done", "raised", "returned"}

Raise(e) == pc' = "raised" /\ error' = e

\* open + json.load; os.makedirs; url_index, matches_found
Load ==
    /\ pc = "load"
    /\ IF parseable
       THEN /\ notebook' = input_doc
            /\ pc' = "cells"
       ELSE /\ pc' = "returned"
            /\ UNCHANGED notebook
    /\ UNCHANGED <<error, repo, issued, ctx, cell_index, out_index, value_str,
                   matches, match_i, matches_found, locals, effects, history>>

Cell == notebook[cell_index + 1]

InspectedAnyType(output) == "text/html" \in DOMAIN output.data

Inspected(output) ==
    output.output_type = "execute_result" /\ "text/html" \in DOMAIN output.data

\* for cell_index, cell in enumerate(notebook['cells']): exhausted
EndCells ==
    /\ pc = "cells"
    /\ cell_index = Len(notebook)
    /\ pc' = "dump"
    /\ UNCHANGED <<error, repo, issued, ctx, scan, locals, effects, history>>

\* a cell that is not code, or whose outputs are exhausted
NextCell ==
    /\ pc = "cells"
    /\ cell_index < Len(notebook)
    /\ Cell.cell_type # "code" \/ out_index > Len(Cell.outputs)
    /\ cell_index' = cell_index + 1
    /\ out_index' = 1
    /\ UNCHANGED <<pc, error, repo, issued, ctx, notebook, value_str, matches,
                   match_i, matches_found, locals, effects, history>>

\* an output that is not an execute_result or has no text/html entry
SkipOutput ==
    /\ pc = "cells"
    /\ cell_index < Len(notebook)
    /\ Cell.cell_type = "code" /\ out_index <= Len(Cell.outputs)
    /\ ~Inspected(Cell.outputs[out_index])
    /\ out_index' = out_index + 1
    /\ UNCHANGED <<pc, error, repo, issued, ctx, notebook, cell_index, value_str,
                   matches, match_i, matches_found, locals, effects, history>>

\* value_str = ''.join(value); matches = re.findall(...); matches_found
ScanOutput ==
    /\ pc = "cells"
    /\ cell_index < Len(notebook)
    /\ Cell.cell_type = "code" /\ out_index <= Len(Cell.outputs)
    /\ Inspected(Cell.outputs[out_index])
    /\ LET joined == Join(Cell.outputs[out_index].data["text/html"]) IN
       /\ value_str' = joined
       /\ matches' = FindAll(joined)
       /\ matches_found' = (matches_found \/ FindAll(joined) # <<>>)
    /\ match_i' = 0
    /\ outcomes' = <<>>
    /\ entry_branch' = NoBranch /\ entry' = NoEntry
    /\ pc' = "matches"
    /\ UNCHANGED <<error, repo, issued, ctx, notebook, cell_index, out_index,
                   locals, effects, returned>>

\* for match in matches: the next match
NextMatch ==
    /\ pc = "matches"
    /\ match_i < Len(matches)
    /\ match_i' = match_i + 1
    /\ entry_branch' = branch /\ entry' = [dirty |-> dirty, stash |-> stash]
    /\ current_branch' = NoBranch /\ audio_filepath' = NoPath /\ raw_url' = Unset
    /\ cp_branch' = NoBranch /\ res' = NoRes
    /\ pc' = "cb_stash"
    /\ UNCHANGED <<error, repo, issued, ctx, notebook, cell_index, out_index,
                   value_str, matches, matches_found, effects, outcomes, returned>>

StoredBackBare(nb, ci, oi, s) ==
    [nb EXCEPT ![ci + 1].outputs[oi].data["text/html"] = Value("str", <<s>>)]

\* output['data'][key] = [value_str]
StoredBack(nb, ci, oi, s) ==
    [nb EXCEPT ![ci + 1].outputs[oi].data["text/html"] = Value("list", <<s>>)]

StoreBack ==
    /\ pc = "matches"
    /\ match_i = Len(matches)
    /\ notebook' = StoredBack(notebook, cell_index, out_index, value_str)
    /\ out_index' = out_index + 1
    /\ pc' = "cells"
    /\ UNCHANGED <<error, repo, issued, ctx, cell_index, value_str, matches,
                   match_i, matches_found, locals, effects, history>>

\* -------------------------------------------------------- change_branch
\* subprocess.run(["git","stash"], check=True)
ChangeBranchStash ==
    /\ pc = "cb_stash"
    /\ \E ok \in Outcomes :
        /\ Fault(ok)
        /\ Except(ok, "change_branch")
        /\ Log("stash")
        /\ IF ok THEN GitStash ELSE UNCHANGED <<stash, dirty, staged, input_disk>>
        /\ pc' = RunChecked(ok, "cb_show", "if_branch")
    /\ UNCHANGED <<error, branch, storage_tree, committed, pushed, inputs, scan,
                   locals, effects, history>>

\* current_branch = git branch --show-current
ChangeBranchShow ==
    /\ pc = "cb_show"
    /\ \E ok \in Outcomes :
        /\ Fault(ok)
        /\ Except(ok, "change_branch")
        /\ Log("show-current")
        /\ current_branch' = IF ok THEN branch ELSE NoBranch
        /\ pc' = RunChecked(ok, "cb_checkout", "if_branch")
    /\ UNCHANGED <<error, repo, inputs, scan, audio_filepath, raw_url, cp_branch, res,
                   effects, history>>

\* git rev-parse --verify; git checkout -b target_branch, or git checkout
\* target_branch; return current_branch, or None from the handler
ChangeBranchCheckout ==
    /\ pc = "cb_checkout"
    /\ \E ok \in Outcomes :
        /\ Fault(ok)
        /\ Except(ok, "change_branch")
        /\ issued' = issued \cup {[cmd |-> "rev-parse", on |-> branch],
                                  [cmd |-> "checkout", on |-> branch]}
        /\ IF ok
           THEN LET branch_exists == storage_tree # "none"
                    tree == IF branch_exists THEN storage_tree ELSE InputAt(branch) IN
                /\ storage_tree' = tree
                /\ IF branch_exists
                   THEN GitCheckout(branch_name, tree)
                   ELSE branch' = branch_name /\ UNCHANGED input_disk
                /\ UNCHANGED current_branch
           ELSE /\ current_branch' = NoBranch
                /\ UNCHANGED <<branch, storage_tree, input_disk>>
        /\ pc' = RunChecked(ok, "if_branch", "if_branch")
    /\ UNCHANGED <<error, dirty, staged, stash, committed, pushed, inputs, scan,
                   audio_filepath, raw_url, cp_branch, res, effects, history>>

\* truth value of a str-or-None: None and '' are false
TruthyAny(b) == TRUE

\* the truth value of what change_branch returned: None and '' are false
Truthy(b) == b # NoBranch /\ b # ""

\* if current_branch:
IfBranch ==
    /\ pc = "if_branch"
    /\ IF Truthy(current_branch)
       THEN pc' = "save" /\ UNCHANGED outcomes
       ELSE pc' = "matches" /\ outcomes' = Append(outcomes, "skipped")
    /\ entry' = NoEntry
    /\ UNCHANGED <<error, repo, issued, ctx, scan, locals, effects, entry_branch,
                   returned>>

\* ------------------------------------------------------ save_audio_file
WriteFile(files, f) == { g \in files : g.path # f.path } \cup {f}

SaveAudioFile ==
    /\ pc = "save"
    /\ LET payload == matches[match_i]
           path == AudioFilepath(payload, cell_index) IN
       IF DecodeRaises(payload)
       THEN /\ Raise("binascii.Error")
            /\ UNCHANGED <<written_files, audio_filepath>>
       ELSE /\ written_files' = WriteFile(written_files,
                                          [path |-> path, bytes |-> b64decode(payload)])
            /\ audio_filepath' = path
            /\ pc' = "cp_show"
            /\ UNCHANGED error
    /\ UNCHANGED <<repo, issued, ctx, scan, current_branch, raw_url, cp_branch, res,
                   out_files, status, history>>

\* ------------------------------------------- commit_and_push_audio_file
BranchAssertOff(cur) == TRUE

\* assert current_branch == branch_name
BranchAssert(cur) == cur = branch_name

\* the file at audio_filepath, as it is in the work tree
FileAt(path) == { f \in written_files : f.path = path }

\* current_branch = git branch --show-current; the assert
PersistShow ==
    /\ pc = "cp_show"
    /\ \E ok \in Outcomes :
        /\ Fault(ok)
        /\ Except(ok, "commit_and_push_audio_file")
        /\ Log("show-current")
        /\ IF ok
           THEN /\ cp_branch' = branch
                /\ IF BranchAssert(branch)
                   THEN pc' = "cp_add" /\ UNCHANGED error
                   ELSE Raise("AssertionError")
                /\ UNCHANGED raw_url
           ELSE /\ raw_url' = None
                /\ pc' = RunChecked(ok, "cp_add", "after_cp")
                /\ UNCHANGED <<cp_branch, error>>
    /\ UNCHANGED <<repo, inputs, scan, current_branch, audio_filepath, res, effects,
                   history>>

\* git add audio_filepath: fails when no such file exists
PersistAdd ==
    /\ pc = "cp_add"
    /\ \E ok \in OutcomesIf(FileAt(audio_filepath) # {}) :
        /\ Fault(ok)
        /\ Except(ok, "commit_and_push_audio_file")
        /\ Log("add")
        /\ res' = [res EXCEPT !["add"] = IF ok THEN "ok" ELSE "fail"]
        /\ staged' = IF ok THEN staged \cup (FileAt(audio_filepath) \ committed)
                     ELSE staged
        /\ raw_url' = IF ok THEN raw_url ELSE None
        /\ pc' = RunChecked(ok, "cp_commit", "after_cp")
    /\ UNCHANGED <<error, branch, storage_tree, dirty, stash, committed, pushed,
                   input_disk, inputs, scan, current_branch, audio_filepath, cp_branch,
                   effects, history>>

\* git commit -m ...: fails when the index holds nothing to commit
PersistCommit ==
    /\ pc = "cp_commit"
    /\ \E ok \in OutcomesIf(staged # {}) :
        /\ Fault(ok)
        /\ Except(ok, "commit_and_push_audio_file")
        /\ Log("commit")
        /\ res' = [res EXCEPT !["commit"] = IF ok THEN "ok" ELSE "fail"]
        /\ IF ok
           THEN /\ committed' = { f \in committed : \A g \in staged : g.path # f.path }
                                \cup staged
                /\ staged' = {}
           ELSE UNCHANGED <<committed, staged>>
        /\ raw_url' = IF ok THEN raw_url ELSE None
        /\ pc' = RunChecked(ok, "cp_push", "after_cp")
    /\ UNCHANGED <<error, branch, storage_tree, dirty, stash, pushed, input_disk,
                   inputs, scan, current_branch, audio_filepath, cp_branch, effects,
                   history>>

\* git push origin audio-storage
PersistPush ==
    /\ pc = "cp_push"
    /\ \E ok \in Outcomes :
        /\ Fault(ok)
        /\ Except(ok, "commit_and_push_audio_file")
        /\ Log("push")
        /\ res' = [res EXCEPT !["push"] = IF ok THEN "ok" ELSE "fail"]
        /\ pushed' = IF ok THEN committed ELSE pushed
        /\ raw_url' = IF ok THEN raw_url ELSE None
        /\ pc' = RunChecked(ok, "cp_config", "after_cp")
    /\ UNCHANGED <<error, branch, storage_tree, dirty, staged, stash, committed,
                   input_disk, inputs, scan, current_branch, audio_filepath, cp_branch,
                   effects, history>>

\* repo_url = git config --get remote.origin.url; raw_url = ...
PersistConfig ==
    /\ pc = "cp_config"
    /\ \E ok \in Outcomes :
        /\ Fault(ok)
        /\ Except(ok, "commit_and_push_audio_file")
        /\ Log("config")
        /\ raw_url' = IF ok THEN raw_url ELSE None
        /\ pc' = RunChecked(ok, "cp_checkout", "after_cp")
    /\ UNCHANGED <<error, repo, inputs, scan, current_branch, audio_filepath,
                   cp_branch, res, effects, history>>

\* git checkout current_branch; return raw_url
PersistCheckout ==
    /\ pc = "cp_checkout"
    /\ \E ok \in Outcomes :
        /\ Fault(ok)
        /\ Except(ok, "commit_and_push_audio_file")
        /\ Log("checkout")
        /\ IF ok THEN GitCheckout(cp_branch, storage_tree)
                 ELSE UNCHANGED <<branch, input_disk>>
        /\ raw_url' = IF ok THEN RawUrl(audio_filepath) ELSE None
        /\ pc' = RunChecked(ok, "after_cp", "after_cp")
    /\ UNCHANGED <<error, storage_tree, dirty, staged, stash, committed, pushed,
                   inputs, scan, current_branch, audio_filepath, cp_branch, res,
                   effects, history>>

\* ------------------------------------------------- replace_audio_data
\* if raw_url: value_str = value_str.replace(f'data:audio/wav;base64,{match}', raw_url)
AfterPersist ==
    /\ pc = "after_cp"
    /\ IF raw_url # None
       THEN /\ value_str' = Replace(value_str, DataWav(matches[match_i]), <<raw_url>>)
            /\ outcomes' = Append(outcomes, "url")
            /\ returned' = returned \cup {[cell |-> cell_index, match |-> matches[match_i],
                                            url |-> raw_url]}
       ELSE /\ UNCHANGED <<value_str, returned>>
            /\ outcomes' = Append(outcomes, "failed")
    /\ pc' = "rb_checkout"
    /\ UNCHANGED <<error, repo, issued, ctx, notebook, cell_index, out_index,
                   matches, match_i, matches_found, locals, effects, entry_branch,
                   entry>>

\* ------------------------------------------------------- restore_branch
\* the names the module binds: its imports
ModuleNames == {"json", "re", "sys", "os", "base64", "hashlib", "subprocess"}

\* subprocess.run(["git", "checkout", original_branch], check=True)
RestoreCheckout ==
    /\ pc = "rb_checkout"
    /\ \E ok \in Outcomes :
        /\ Fault(ok)
        /\ Except(ok, "restore_branch")
        /\ Log("checkout")
        /\ IF ok THEN GitCheckout(current_branch, storage_tree)
                 ELSE UNCHANGED <<branch, input_disk>>
        /\ pc' = RunChecked(ok, "rb_pop", "matches")
    /\ UNCHANGED <<error, storage_tree, dirty, staged, stash, committed, pushed,
                   inputs, scan, locals, effects, history>>

\* git stash pop: restores the newest entry; fails when there is none
GitStashPop ==
    /\ dirty' = (dirty \/ Head(stash).dirty)
    /\ staged' = staged \cup Head(stash).staged
    /\ input_disk' = IF Head(stash).dirty THEN "edited" ELSE input_disk
    /\ stash' = Tail(stash)

\* subproress.run(["git","stash","pop"], check=True): the name subproress is
\* looked up first, and a name the module does not bind raises NameError, which
\* the handler for CalledProcessError does not catch
RestorePop ==
    /\ pc = "rb_pop"
    /\ IF "subproress" \notin ModuleNames
       THEN /\ Raise("NameError")
            /\ UNCHANGED <<issued, dirty, staged, input_disk, stash, faults, reports>>
       ELSE \E ok \in OutcomesIf(stash # <<>>) :
            /\ Fault(ok)
            /\ Except(ok, "restore_branch")
            /\ Log("stash pop")
            /\ IF ok THEN GitStashPop ELSE UNCHANGED <<dirty, staged, input_disk, stash>>
            /\ pc' = RunChecked(ok, "matches", "matches")
            /\ UNCHANGED error
    /\ UNCHANGED <<branch, storage_tree, committed, pushed, inputs, scan, locals,
                   effects, history>>

\* ------------------------------------------------ audio_data2url, the end
\* json.dump(notebook, file) to output_filename
Dump ==
    /\ pc = "dump"
    /\ LET output_filename == OutputFilename(input_filename, nondestructive) IN
       /\ out_files' = Append(out_files, [name |-> output_filename, doc |-> notebook])
       /\ input_disk' = IF output_filename = input_filename THEN "written"
                        ELSE input_disk
    /\ pc' = "status"
    /\ UNCHANGED <<error, branch, storage_tree, dirty, staged, stash, committed,
                   pushed, issued, ctx, scan, locals, written_files, status, history>>

\* the status message
Report ==
    /\ pc = "status"
    /\ status' = IF matches_found THEN "Matches found and replaced"
                 ELSE "No matches found."
    /\ pc' = "done"
    /\ UNCHANGED <<error, repo, issued, ctx, scan, locals, written_files,
                   out_files, history>>

Next ==
    \/ Load \/ EndCells \/ NextCell \/ SkipOutput \/ ScanOutput \/ NextMatch
    \/ StoreBack \/ ChangeBranchStash \/ ChangeBranchShow \/ ChangeBranchCheckout
    \/ IfBranch \/ SaveAudioFile \/ PersistShow \/ PersistAdd \/ PersistCommit
    \/ PersistPush \/ PersistConfig \/ PersistCheckout \/ AfterPersist
    \/ RestoreCheckout \/ RestorePop \/ Dump \/ Report

Spec == Init /\ [][Next]_vars

\* ------------------------------------ commit_and_push_audio_file alone
\* The function called on its own: from any branch, for any artifact path,
\* whether or not the file is in the work tree.
Paths == [cell : 0..(MaxCells - 1), hash : 0..(HashMod - 1)]

InitPersist ==
    /\ pc = "cp_show" /\ error = "none"
    /\ branch \in {"main", "", branch_name}
    /\ storage_tree \in {"none", "other"}
    /\ branch = branch_name => storage_tree # "none"
    /\ dirty \in BOOLEAN
    /\ staged = {} /\ stash = <<>> /\ committed = {} /\ pushed = {}
    /\ input_disk = IF dirty THEN "edited" ELSE InputAt(branch)
    /\ audio_filepath \in Paths
    /\ written_files \in {{}, {[path |-> audio_filepath, bytes |-> <<1>>]}}
    /\ out_files = <<>> /\ issued = {}
    /\ nondestructive = TRUE /\ parseable = TRUE /\ input_doc = <<>>
    /\ notebook = <<>> /\ cell_index = 0 /\ out_index = 1
    /\ value_str = <<>> /\ matches = <<>> /\ match_i = 0 /\ matches_found = FALSE
    /\ current_branch = NoBranch /\ raw_url = Unset
    /\ cp_branch = NoBranch /\ res = NoRes /\ status = "none"
    /\ entry_branch = branch /\ outcomes = <<>> /\ returned = {} /\ faults = 0
    /\ entry = [dirty |-> dirty, stash |-> stash] /\ reports = {} /\ main = NoMain
    /\ start = [branch |-> branch, dirty |-> dirty, input_disk |-> input_disk]

NextPersist ==
    \/ PersistShow \/ PersistAdd \/ PersistCommit \/ PersistPush \/ PersistConfig
    \/ PersistCheckout

SpecPersist == InitPersist /\ [][NextPersist]_vars

\* ------------------------------------------------------------- __main__
\* The script: sys.argv[1:] holds directories, files and names of neither.
\* A file is a notebook (its name ends in .ipynb) or not; a notebook may fail
\* to parse.
File(ipynb, ok, doc) == [ipynb |-> ipynb, parseable |-> ok, doc |-> doc]

F_broken == File(TRUE, FALSE, <<>>)

F_text == File(TRUE, TRUE,
               <<Markdown, Code(<<PlainOutput("execute_result"),
                                  Output("execute_result", Value("str", <<Str(<<"t">>)>>))>>)>>)

F_audio == File(TRUE, TRUE, <<Code(<<Output("execute_result", Value("str", <<H_wav>>))>>)>>)

F_readme == File(FALSE, FALSE, <<>>)

Args ==
    { [kind |-> "file", files |-> <<f>>] : f \in {F_broken, F_text, F_audio, F_readme} }
    \cup { [kind |-> "dir", files |-> <<F_readme, F_audio, F_text>>],
           [kind |-> "none", files |-> <<>>] }

IsNotebook(f) == f.ipynb

InitMain ==
    /\ pc = "main" /\ error = "none"
    /\ branch = "main"
    /\ storage_tree \in {"none", "other"}
    /\ dirty \in BOOLEAN
    /\ staged = {} /\ stash = <<>> /\ committed = {} /\ pushed = {}
    /\ input_disk = IF dirty THEN "edited" ELSE InputAt(branch)
    /\ written_files = {} /\ out_files = <<>> /\ issued = {}
    /\ nondestructive = TRUE /\ parseable = TRUE /\ input_doc = <<>>
    /\ notebook = <<>> /\ cell_index = 0 /\ out_index = 1
    /\ value_str = <<>> /\ matches = <<>> /\ match_i = 0 /\ matches_found = FALSE
    /\ current_branch = NoBranch /\ audio_filepath = NoPath /\ raw_url = Unset
    /\ cp_branch = NoBranch /\ res = NoRes /\ status = "none"
    /\ entry_branch = NoBranch /\ outcomes = <<>> /\ returned = {} /\ faults = 0
    /\ entry = NoEntry /\ reports = {}
    /\ start = [branch |-> branch, dirty |-> dirty, input_disk |-> input_disk]
    /\ \E argv \in UNION { [1..n -> Args] : n \in 0..MaxArgs } :
           main = [NoMain EXCEPT !.argv = argv]

\* if len(sys.argv) < 2: the usage message and sys.exit(1)
MainUsage ==
    /\ pc = "main" /\ main.i = 0 /\ Len(main.argv) < 1
    /\ main' = [main EXCEPT !.exit = 1]
    /\ pc' = "exited"
    /\ UNCHANGED <<error, repo, issued, parseable, nondestructive, input_doc, start,
                   faults, reports, scan, locals, effects, history>>

\* for arg in sys.argv[1:]: a directory is walked for its .ipynb files, a
\* .ipynb file is taken as it is, anything else is skipped with a message
MainArg ==
    /\ pc = "main" /\ main.todo = <<>> /\ main.i < Len(main.argv)
    /\ LET arg == main.argv[main.i + 1] IN
       main' = [main EXCEPT !.i = @ + 1,
                            !.todo = IF arg.kind = "dir"
                                     THEN SelectSeq(arg.files, IsNotebook)
                                     ELSE IF arg.kind = "file" /\ arg.files[1].ipynb
                                          THEN arg.files
                                          ELSE <<>>]
    /\ UNCHANGED <<pc, error, repo, issued, parseable, nondestructive, input_doc, start,
                   faults, reports, scan, locals, effects, history>>

\* audio_data2url(...) on the next notebook, nondestructive by default
MainCall ==
    /\ pc = "main" /\ main.todo # <<>>
    /\ LET f == Head(main.todo) IN
       /\ main' = [main EXCEPT !.todo = Tail(@), !.called = Append(@, f)]
       /\ parseable' = f.parseable /\ input_doc' = f.doc
    /\ start' = [branch |-> branch, dirty |-> dirty, input_disk |-> input_disk]
    /\ notebook' = <<>> /\ cell_index' = 0 /\ out_index' = 1
    /\ value_str' = <<>> /\ matches' = <<>> /\ match_i' = 0 /\ matches_found' = FALSE
    /\ current_branch' = NoBranch /\ audio_filepath' = NoPath /\ raw_url' = Unset
    /\ cp_branch' = NoBranch /\ res' = NoRes /\ status' = "none"
    /\ entry_branch' = NoBranch /\ entry' = NoEntry /\ outcomes' = <<>>
    /\ pc' = "load"
    /\ UNCHANGED <<error, repo, issued, nondestructive, faults, reports, written_files,
                   out_files, returned>>

\* audio_data2url returned: the loop goes on
MainReturn ==
    /\ pc \in {"done", "returned"}
    /\ pc' = "main"
    /\ UNCHANGED <<error, repo, issued, ctx, scan, locals, effects, history>>

\* an exception left audio_data2url: nothing in the script catches it, the
\* interpreter prints the traceback and exits with status 1
MainRaised ==
    /\ pc = "raised"
    /\ main' = [main EXCEPT !.exit = 1]
    /\ pc' = "exited"
    /\ UNCHANGED <<error, repo, issued, parseable, nondestructive, input_doc, start,
                   faults, reports, scan, locals, effects, history>>

\* the loop is exhausted: the script ends with status 0
MainEnd ==
    /\ pc = "main" /\ main.todo = <<>> /\ main.i = Len(main.argv) /\ Len(main.argv) >= 1
    /\ main' = [main EXCEPT !.exit = 0]
    /\ pc' = "exited"
    /\ UNCHANGED <<error, repo, issued, parseable, nondestructive, input_doc, start,
                   faults, reports, scan, locals, effects, history>>

NextMain ==
    \/ MainUsage \/ MainArg \/ MainCall \/ MainReturn \/ MainRaised \/ MainEnd
    \/ Load \/ EndCells \/ NextCell \/ SkipOutput \/ ScanOutput \/ NextMatch
    \/ StoreBack \/ ChangeBranchStash \/ ChangeBranchShow \/ ChangeBranchCheckout
    \/ IfBranch \/ SaveAudioFile \/ PersistShow \/ PersistAdd \/ PersistCommit
    \/ PersistPush \/ PersistConfig \/ PersistCheckout \/ AfterPersist
    \/ RestoreCheckout \/ RestorePop \/ Dump \/ Report

SpecMain == InitMain /\ [][NextMain]_vars

\* ================================================================ claims
\* a reference has been taken up and its processing has ended
ReferenceEnded == entry_branch # NoBranch /\ pc \in {"matches", "raised"}

\* C1: whenever the processing of one reference ends, the current branch is the
\* branch that was current before change_branch("audio-storage") was called.
C1_BranchRestored == ReferenceEnded => branch = entry_branch

\* C2: what change_branch stashed is popped before the processing of the
\* reference ends, and when audio_data2url finishes no stash entry remains and
\* the work tree holds the uncommitted changes it held before the run.
C2_StashRestored ==
    /\ ReferenceEnded => stash = <<>>
    /\ pc \in Terminal => (stash = <<>> /\ dirty = start.dirty)

\* C3: after commit_and_push_audio_file has returned None for a reference, no
\* error leaves audio_data2url: the run goes on with the next reference.
C3_FailureDoesNotAbort == raw_url = None => pc # "raised"

\* the text/html content the scanner is working on, as it was loaded
LoadedHtml == Join(input_doc[cell_index + 1].outputs[out_index].data["text/html"])

\* where each match of the pattern lies in s: the span of what follows src="
RECURSIVE SpansFrom(_, _)
SpansFrom(s, i) ==
    IF i > Len(s) THEN <<>>
    ELSE LET m == MatchAt(s, i) IN
         IF m.ok THEN <<[from |-> i + 1, to |-> m.to]>> \o SpansFrom(s, m.to + 2)
         ELSE SpansFrom(s, i + 1)

\* s with the occurrences in R, and no others, replaced by their URL
RECURSIVE Substituted(_, _, _, _)
Substituted(s, spans, R, i) ==
    IF i = 0 THEN s
    ELSE LET rest == IF i \in R
                     THEN SubSeq(s, 1, spans[i].from - 1)
                          \o <<RawUrl(AudioFilepath(matches[i], cell_index))>>
                          \o SubSeq(s, spans[i].to + 1, Len(s))
                     ELSE s IN
         Substituted(rest, spans, R, i - 1)

\* the occurrences that may stand replaced: a call for the same payload has
\* returned a URL, and the occurrence's own persistence has not failed
MayBeReplaced ==
    { i \in 1..Len(matches) :
        /\ \E j \in 1..Len(outcomes) : outcomes[j] = "url" /\ matches[j] = matches[i]
        /\ ~(i <= Len(outcomes) /\ outcomes[i] # "url") }

\* C4: between references, the content being rewritten is the loaded content
\* with only such occurrences replaced by a URL whose payload was persisted; an
\* occurrence whose change_branch or commit_and_push_audio_file failed is as loaded.
C4_ReplacedOnlyIfPersisted ==
    pc \in {"matches", "rb_checkout", "rb_pop"} =>
        \E R \in SUBSET MayBeReplaced :
            value_str = Substituted(LoadedHtml, SpansFrom(LoadedHtml, 1), R,
                                    Len(matches))

\* C5: for a parseable document, audio_data2url serializes the document exactly
\* once, after all cells have been processed, whatever happened to its references.
C5_SerializedOnce ==
    /\ Len(out_files) <= 1
    /\ out_files # <<>> => cell_index = Len(notebook)
    /\ (parseable /\ pc \in Terminal) => Len(out_files) = 1

\* the text/html contents the scanner inspects in a document, in order
RECURSIVE HtmlOfOutputs(_)
HtmlOfOutputs(outputs) ==
    IF outputs = <<>> THEN <<>>
    ELSE (IF Inspected(Head(outputs))
          THEN <<JoinLines(Head(outputs).data["text/html"].lines)>> ELSE <<>>)
         \o HtmlOfOutputs(Tail(outputs))

RECURSIVE HtmlOf(_)
HtmlOf(doc) ==
    IF doc = <<>> THEN <<>>
    ELSE (IF Head(doc).cell_type = "code" THEN HtmlOfOutputs(Head(doc).outputs)
          ELSE <<>>)
         \o HtmlOf(Tail(doc))

RECURSIVE AllMatches(_)
AllMatches(htmls) ==
    IF htmls = <<>> THEN <<>> ELSE FindAll(Head(htmls)) \o AllMatches(Tail(htmls))

\* the references the scanner finds in a document
References(doc) == AllMatches(HtmlOf(doc))

Contains(s, sub) == \E i \in 0..(Len(s) - Len(sub)) : SubSeq(s, i + 1, i + Len(sub)) = sub

IsUrl(tok) == tok.k = "url"

\* C6: a document with exactly one reference, of any subtype, whose persistence
\* returned a URL, is written out with the URL exactly once and without the payload.
C6_SingleReferenceRewritten ==
    (pc = "done" /\ Len(References(input_doc)) = 1 /\ returned # {}) =>
        LET out == JoinLines(HtmlOf(out_files[1].doc)) IN
        /\ Len(SelectSeq(out, IsUrl)) = 1
        /\ \A r \in returned : Contains(out, <<r.url>>) /\ ~Contains(out, r.match)

\* C7: in non-destructive mode the output goes to another path than the input,
\* and the input file on disk is after the run what it was before.
C7_InputUntouched ==
    nondestructive =>
        /\ \A i \in 1..Len(out_files) : out_files[i].name # input_filename
        /\ pc \in Terminal => input_disk = start.input_disk

\* C8 (as claimed): a document without references is serialized as the tree
\* that was loaded.
C8_RoundTrip ==
    (pc = "done" /\ References(input_doc) = <<>>) => out_files[1].doc = input_doc

\* the loaded tree with every inspected text/html entry as the one-element
\* list of its concatenated lines
RECURSIVE Concat(_, _)
Concat(lines, n) == IF n = 0 THEN <<>> ELSE Concat(lines, n - 1) \o lines[n]

NormalisedOutput(o) ==
    IF Inspected(o)
    THEN [o EXCEPT !.data["text/html"] =
             [kind |-> "list",
              lines |-> <<Concat(@.lines, Len(@.lines))>>]]
    ELSE o

NormalisedCell(c) ==
    IF c.cell_type = "code"
    THEN [c EXCEPT !.outputs = [i \in 1..Len(c.outputs) |-> NormalisedOutput(c.outputs[i])]]
    ELSE c

Normalised(doc) == [i \in 1..Len(doc) |-> NormalisedCell(doc[i])]

\* C8 (amended): a document without references is serialized as the tree that
\* was loaded, except that each text/html entry of an execute_result output of
\* a code cell is stored as a one-element list holding its concatenated lines.
C8_RoundTripNormalised ==
    (pc = "done" /\ References(input_doc) = <<>>) =>
        out_files[1].doc = Normalised(input_doc)

\* a document without references has been written, and it held a text/html
\* entry of several lines and differs from what was loaded
C8_Witness ==
    /\ pc = "done" /\ References(input_doc) = <<>>
    /\ out_files[1].doc # input_doc
    /\ \E i \in 1..Len(input_doc) : \E j \in 1..Len(input_doc[i].outputs) :
          /\ Inspected(input_doc[i].outputs[j])
          /\ Len(input_doc[i].outputs[j].data["text/html"].lines) > 1

\* commit_and_push_audio_file is past its branch check
Persisting ==
    \/ pc \in {"cp_add", "cp_commit", "cp_push", "cp_config", "cp_checkout", "after_cp"}
    \/ pc = "raised" /\ error = "AssertionError"

\* C9: every add, commit and push of commit_and_push_audio_file runs on
\* audio-storage; called on another branch, the attempt fails without an add,
\* a commit or a push, and returns no URL.
C9_CommitsOnlyOnStorage ==
    /\ \A e \in issued : e.cmd \in {"add", "commit", "push"} => e.on = branch_name
    /\ (Persisting /\ branch # branch_name) =>
          /\ pc \in {"after_cp", "raised"}
          /\ res = NoRes
          /\ ~IsUrl(raw_url)

\* the call was made on main and the assert stopped it
C9_Witness ==
    /\ pc = "raised" /\ error = "AssertionError"
    /\ branch = "main" /\ cp_branch = "main"
    /\ res = NoRes /\ raw_url = Unset

\* C10: commit runs only after add succeeded and push only after commit
\* succeeded; a URL is returned only if all three succeeded, and once one of
\* them has failed the result is None.
C10_HaltsAtFirstFailure ==
    /\ res["commit"] # "none" => res["add"] = "ok"
    /\ res["push"] # "none" => res["commit"] = "ok"
    /\ IsUrl(raw_url) => \A c \in DOMAIN res : res[c] = "ok"
    /\ (\E c \in DOMAIN res : res[c] = "fail") => raw_url = None

\* commit has failed after a successful add: push was not run, None is returned
C10_Witness ==
    /\ pc = "after_cp"
    /\ res = [add |-> "ok", commit |-> "fail", push |-> "none"]
    /\ raw_url = None

\* the references of a document, each with the index of its cell
DocRefs(doc) ==
    UNION { UNION { LET lines == doc[i].outputs[j].data["text/html"].lines
                        found == FindAll(Concat(lines, Len(lines))) IN
                    { [cell |-> i - 1, match |-> found[k]] : k \in 1..Len(found) } :
                    j \in { o \in 1..Len(doc[i].outputs) :
                              /\ doc[i].cell_type = "code"
                              /\ doc[i].outputs[o].output_type = "execute_result"
                              /\ "text/html" \in DOMAIN doc[i].outputs[o].data } } :
            i \in 1..Len(doc) }

SameBytes(m1, m2) == b64decode(m1) = b64decode(m2)

\* C11: references with identical payload bytes, in one cell or in several,
\* are stored under one path and obtain one retrieval URL: files with the same
\* bytes have the same path, URLs returned for the same bytes are equal, and
\* when a run in which no git command failed is over, every reference with the
\* bytes of a reference that obtained a URL has obtained one too.
C11_ContentAddressed ==
    /\ \A f \in written_files : \A g \in written_files :
          f.bytes = g.bytes => f.path = g.path
    /\ \A r \in returned : \A q \in returned :
          SameBytes(r.match, q.match) => r.url = q.url
    /\ (pc \in Terminal /\ faults = 0) =>
          \A r \in DocRefs(input_doc) :
              (\E q \in returned : SameBytes(q.match, r.match)) =>
              (\E q \in returned : q.cell = r.cell /\ q.match = r.match)

\* C12: "Matches found and replaced" is reported only if the document written
\* holds at least one URL in place of a reference.
C12_StatusTellsReplacement ==
    status = "Matches found and replaced" =>
        SelectSeq(JoinLines(HtmlOf(out_files[1].doc)), IsUrl) # <<>>

\* the notebooks an argument list names, in the order of the arguments
RECURSIVE Named(_)
Named(argv) ==
    IF argv = <<>> THEN <<>>
    ELSE LET arg == Head(argv) IN
         (IF arg.kind = "none" THEN <<>> ELSE SelectSeq(arg.files, IsNotebook))
         \o Named(Tail(argv))

\* C13: when the script ends, audio_data2url has been called on every notebook
\* the arguments name, in their order, whatever happened to the earlier ones,
\* and the exit status is non-zero only if there was no argument.
C13_EveryDocumentProcessed ==
    pc = "exited" =>
        /\ main.called = Named(main.argv)
        /\ main.exit # 0 => main.argv = <<>>

\* C14: a failure of restore_branch is never reported as a failure of add,
\* commit or push in commit_and_push_audio_file is: the two differ in what is
\* printed or in what the function hands back to audio_data2url.
C14_ReleaseFailureDistinct ==
    \A r \in reports : \A q \in reports :
        ( /\ r.fn = "restore_branch"
          /\ q.fn = "commit_and_push_audio_file"
          /\ \E c \in DOMAIN res : res[c] = "fail" )
        => <<r.printed, r.returns>> # <<q.printed, q.returns>>

\* C15: the steps of the references never interleave. The artifact is written
\* and add, commit and push run only on the storage branch, after the checkout
\* of change_branch; the switch back runs only once commit_and_push_audio_file
\* has returned; and the stash of a reference starts only from the loop head,
\* for the next match in order, when every earlier reference has ended.
C15_OneAtATime ==
    [][ /\ pc \in {"save", "cp_add", "cp_commit", "cp_push"} =>
              /\ branch = branch_name
              /\ [cmd |-> "checkout", on |-> entry_branch] \in issued
              /\ Len(outcomes) = match_i - 1
        /\ pc \in {"rb_checkout", "rb_pop"} =>
              /\ raw_url # Unset
              /\ Len(outcomes) = match_i
        /\ pc' = "cb_stash" =>
              /\ pc = "matches"
              /\ match_i' = match_i + 1
              /\ Len(outcomes) = match_i
              /\ raw_url' = Unset
      ]_vars

C15_Witness == pc = "cp_push" /\ match_i = 2 /\ Len(outcomes) = 1

\* C16: when change_branch returns None the branch, the uncommitted changes
\* and the stash are as they were when it was called, and the reference is
\* skipped with no artifact written and no add, commit or push.
C16_FailedSwitchLeavesRepository ==
    /\ (pc = "if_branch" /\ current_branch = NoBranch) =>
           /\ branch = entry_branch
           /\ dirty = entry.dirty
           /\ stash = entry.stash
    /\ (pc = "matches" /\ match_i > 0 /\ Len(outcomes) = match_i
           /\ outcomes[match_i] = "skipped") =>
           audio_filepath = NoPath /\ res = NoRes /\ raw_url = Unset

\* C17: within audio_data2url the assert of commit_and_push_audio_file never
\* fails: at each call the current branch is audio-storage.
C17_AssertHolds ==
    /\ error # "AssertionError"
    /\ pc = "cp_show" => branch = branch_name /\ Truthy(current_branch)

C17_Witness == pc = "cp_add" /\ cp_branch = branch_name /\ entry_branch = "main"

\* the scanner finds a reference in the document: some execute_result output
\* of a code cell has a text/html entry in which the pattern matches
HasReference(doc) ==
    \E i \in 1..Len(doc) :
        /\ doc[i].cell_type = "code"
        /\ \E j \in 1..Len(doc[i].outputs) :
               LET o == doc[i].outputs[j] IN
               /\ o.output_type = "execute_result"
               /\ "text/html" \in DOMAIN o.data
               /\ LET lines == o.data["text/html"].lines
                      html == Concat(lines, Len(lines)) IN
                  \E p \in 1..Len(html) : MatchAt(html, p).ok

\* C18: for a document without a reference no git command is issued, the
\* branch, the stash, the index and the commits stay as they were, and no
\* artifact file is written.
C18_NoReferenceNoGit ==
    parseable =>
        \/ /\ issued = {}
           /\ branch = start.branch /\ dirty = start.dirty
           /\ stash = <<>> /\ staged = {}
           /\ committed = {} /\ pushed = {}
           /\ written_files = {}
        \/ HasReference(input_doc)

C18_Witness ==
    /\ pc = "done" /\ ~HasReference(input_doc)
    /\ \E i \in 1..Len(input_doc) : \E j \in 1..Len(input_doc[i].outputs) :
           "text/html" \in DOMAIN input_doc[i].outputs[j].data

=============================================================================
